---- MODULE Spec2Model ----
(***************************************************************************)
(* A model of craystack/codecs.py: the codec algebra over a vectorised     *)
(* rANS message (head lanes, shared tail), the cumulative-bucket tables,   *)
(* Benford64, head reshaping and the AutoRegressive codec.                 *)
(*                                                                         *)
(* Head lanes are numpy uint64 values.  They are kept at their real width: *)
(* a uint64 is four 16-bit limbs, least significant first, and every       *)
(* operation below is arithmetic modulo 2^64 on those limbs.  A tail word  *)
(* (numpy uint32) is two limbs.                                            *)
(***************************************************************************)
EXTENDS Integers, Sequences, FiniteSets, TLC

\* input:   the arguments the run was started with
\* codec:   the codec under test
\* message: the current message (head, tail)
\* pushed:  the pushes not yet popped, each with the message it was given
\* result:  what the last operation returned
VARIABLES input, codec, message, pushed, result

vars == <<input, codec, message, pushed, result>>

(***************************************************************************)
(* uint64 arithmetic                                                       *)
(***************************************************************************)
LimbBase == 2^16

Zero64 == <<0, 0, 0, 0>>

\* A non-negative integer below 2^31 as a uint64.
U64(n) == <<n % LimbBase, n \div LimbBase, 0, 0>>

\* A uint64 below 2^31 as an integer (the two low limbs).
ToInt(x) == x[1] + LimbBase * x[2]

FitsInt(x) == x[3] = 0 /\ x[4] = 0 /\ x[2] < 2^15

\* x with its limbs moved q places down (q > 0) or -q places up (q < 0)
LimbShift(x, q) ==
    CASE q = 0  -> x
      [] q = 1  -> <<x[2], x[3], x[4], 0>>
      [] q = 2  -> <<x[3], x[4], 0, 0>>
      [] q = 3  -> <<x[4], 0, 0, 0>>
      [] q = -1 -> <<0, x[1], x[2], x[3]>>
      [] q = -2 -> <<0, 0, x[1], x[2]>>
      [] q = -3 -> <<0, 0, 0, x[1]>>
      [] OTHER  -> <<0, 0, 0, 0>>

ShrBits(y, d, u) ==
    <<(y[1] \div d) + (y[2] % d) * u, (y[2] \div d) + (y[3] % d) * u,
      (y[3] \div d) + (y[4] % d) * u, y[4] \div d>>

\* x >> p, 0 <= p <= 63
Shr(x, p) == ShrBits(LimbShift(x, p \div 16), 2^(p % 16), 2^(16 - (p % 16)))

ShlBits(y, d, u) ==
    <<(y[1] * d) % LimbBase, ((y[2] * d) % LimbBase) + (y[1] \div u),
      ((y[3] * d) % LimbBase) + (y[2] \div u), ((y[4] * d) % LimbBase) + (y[3] \div u)>>

\* x << p modulo 2^64, 0 <= p <= 63
Shl(x, p) == ShlBits(LimbShift(x, -(p \div 16)), 2^(p % 16), 2^(16 - (p % 16)))

LowLimb(a, k) == IF k >= 16 THEN a ELSE IF k > 0 THEN a % 2^k ELSE 0

\* x & ((1 << p) - 1), 0 <= p <= 64
LowBits(x, p) ==
    <<LowLimb(x[1], p), LowLimb(x[2], p - 16), LowLimb(x[3], p - 32),
      LowLimb(x[4], p - 48)>>

\* 1 << p, 0 <= p <= 63
Pow64(p) == Shl(U64(1), p)

Add64(x, y) ==
    LET s1 == x[1] + y[1]
        s2 == x[2] + y[2] + s1 \div LimbBase
        s3 == x[3] + y[3] + s2 \div LimbBase
        s4 == x[4] + y[4] + s3 \div LimbBase
    IN  <<s1 % LimbBase, s2 % LimbBase, s3 % LimbBase, s4 % LimbBase>>

Sub64(x, y) ==
    LET d1 == x[1] - y[1]
        b1 == IF d1 < 0 THEN 1 ELSE 0
        d2 == x[2] - y[2] - b1
        b2 == IF d2 < 0 THEN 1 ELSE 0
        d3 == x[3] - y[3] - b2
        b3 == IF d3 < 0 THEN 1 ELSE 0
        d4 == x[4] - y[4] - b3
        b4 == IF d4 < 0 THEN 1 ELSE 0
    IN  <<d1 + b1 * LimbBase, d2 + b2 * LimbBase,
          d3 + b3 * LimbBase, d4 + b4 * LimbBase>>

\* x * m modulo 2^64, 0 <= m <= 2^15
MulSmall(x, m) ==
    LET p1 == x[1] * m
        p2 == x[2] * m + p1 \div LimbBase
        p3 == x[3] * m + p2 \div LimbBase
        p4 == x[4] * m + p3 \div LimbBase
    IN  <<p1 % LimbBase, p2 % LimbBase, p3 % LimbBase, p4 % LimbBase>>

\* np.divmod(x, d), 1 <= d <= 2^15: <<quotient (uint64), remainder (integer)>>
DivModSmall(x, d) ==
    LET t4 == x[4]
        t3 == (t4 % d) * LimbBase + x[3]
        t2 == (t3 % d) * LimbBase + x[2]
        t1 == (t2 % d) * LimbBase + x[1]
    IN  <<(<<t1 \div d, t2 \div d, t3 \div d, t4 \div d>>), t1 % d>>

Less64(x, y) ==
    \/ x[4] < y[4]
    \/ x[4] = y[4] /\ x[3] < y[3]
    \/ x[4] = y[4] /\ x[3] = y[3] /\ x[2] < y[2]
    \/ x[4] = y[4] /\ x[3] = y[3] /\ x[2] = y[2] /\ x[1] < y[1]

Leq64(x, y) == ~Less64(y, x)

RECURSIVE OrInt(_, _)
OrInt(a, b) ==
    IF a = 0 THEN b
    ELSE IF b = 0 THEN a
    ELSE (IF a % 2 = 1 \/ b % 2 = 1 THEN 1 ELSE 0) + 2 * OrInt(a \div 2, b \div 2)

\* x | y
Or64(x, y) == <<OrInt(x[1], y[1]), OrInt(x[2], y[2]), OrInt(x[3], y[3]), OrInt(x[4], y[4])>>

RECURSIVE BitLenInt(_)
BitLenInt(a) == IF a = 0 THEN 0 ELSE 1 + BitLenInt(a \div 2)

\* The number of significant bits of x (0 for 0): floor(log2 x) + 1.
BitLen64(x) ==
    IF x[4] # 0 THEN 48 + BitLenInt(x[4])
    ELSE IF x[3] # 0 THEN 32 + BitLenInt(x[3])
    ELSE IF x[2] # 0 THEN 16 + BitLenInt(x[2])
    ELSE BitLenInt(x[1])

(***************************************************************************)
(* np.uint64(np.log2(x)) for a uint64 x > 0.  numpy computes log2 in       *)
(* float64: x is first converted to the nearest double (53 significant     *)
(* bits, a tie to the even mantissa), then the logarithm is rounded to the *)
(* nearest double, then truncated.  With n the bit length of x the result  *)
(* is n - 1, unless the double of x is so close to 2^n that its logarithm  *)
(* rounds to n: the distance 2^n - double(x) is then at most               *)
(* ln(2) * 2^(n - 48), that is Log2Slack / 2^(63 - n).                     *)
(***************************************************************************)
DoubleBits == 53

\* floor(ln(2) * 2^15)
Log2Slack == 22713

\* n / d rounded to the nearest integer, a tie to the even one (np.rint, and
\* the rounding of a conversion to float64)
NpRint(n, d) ==
    LET q == n \div d
        r == n % d
    IN  IF 2 * r < d THEN q
        ELSE IF 2 * r > d THEN q + 1
        ELSE IF q % 2 = 0 THEN q ELSE q + 1

\* the distance from double(x) up to 2^n, for 2^n - x = c < 2^16
DoubleGap(c, n) ==
    IF n > DoubleBits THEN 2^(n - DoubleBits) * NpRint(c, 2^(n - DoubleBits)) ELSE c

Log2From(x, n, c) ==
    IF /\ c[2] = 0 /\ c[3] = 0 /\ c[4] = 0
       /\ n >= 49
       /\ DoubleGap(c[1], n) <= (2 * Log2Slack) \div 2^(64 - n)
    THEN n
    ELSE n - 1

NpLog2(x) == Log2From(x, BitLen64(x), Sub64(Shl(U64(1), BitLen64(x)), x))

(***************************************************************************)
(* The rANS primitive (craystack.vectorans) the codecs are built on.       *)
(* A message is [head |-> lanes, tail |-> words], the top of the tail      *)
(* first.  The interval start and the cumulative value are uint64, the     *)
(* frequency a small integer.                                              *)
(***************************************************************************)
RansLBits == 31

WordBits == 32

RansL == Pow64(RansLBits)

\* np.uint32(x): the low word of a lane
Word32(x) == <<x[1], x[2]>>

WordTo64(w) == <<w[1], w[2], 0, 0>>

Lanes(m) == 1..Len(m.head)

\* a per-lane function as the array it denotes
Array(f) == f \o <<>>

Failure(why) == [ok |-> FALSE, err |-> why]

Min(a, b) == IF a <= b THEN a ELSE b

Max(a, b) == IF a >= b THEN a ELSE b

\* a local name: Body applied to the value v, which is computed at most once
Bind(v, Body(_)) == Body(v)

\* the low words of the first n lanes that renormalise, in lane order
RECURSIVE RenormWords(_, _, _)
RenormWords(head, renorm, n) ==
    IF n = 0 THEN <<>>
    ELSE RenormWords(head, renorm, n - 1)
         \o (IF renorm[n] THEN <<Word32(head[n])>> ELSE <<>>)

\* the number of the first n lanes that refill from the tail
RECURSIVE RefillRank(_, _)
RefillRank(refill, n) ==
    IF n = 0 THEN 0 ELSE RefillRank(refill, n - 1) + (IF refill[n] THEN 1 ELSE 0)

\* vectorans.push(message, starts, freqs, precisions), every argument per lane
VransPush(m, starts, freqs, precs) ==
    Bind(Array([i \in Lanes(m) |->
                  Leq64(MulSmall(Shl(Shr(RansL, precs[i]), WordBits), freqs[i]),
                        m.head[i])]), LAMBDA renorm :
    Bind(Array([i \in Lanes(m) |->
                  DivModSmall(IF renorm[i] THEN Shr(m.head[i], WordBits) ELSE m.head[i],
                              freqs[i])]), LAMBDA dm :
    [head |-> Array([i \in Lanes(m) |->
                Add64(Add64(Shl(dm[i][1], precs[i]), U64(dm[i][2])), starts[i])]),
     tail |-> RenormWords(m.head, renorm, Len(m.head)) \o m.tail]))

\* vectorans.pop(message, precisions): the cumulative values cfs
VransPeek(m, precs) == Array([i \in Lanes(m) |-> LowBits(m.head[i], precs[i])])

\* the closure vectorans.pop returns, applied to (starts, freqs)
VransFinish(m, precs, starts, freqs) ==
    Bind(Array([i \in Lanes(m) |->
                  Sub64(Add64(MulSmall(Shr(m.head[i], precs[i]), freqs[i]),
                              LowBits(m.head[i], precs[i])),
                        starts[i])]), LAMBDA head1 :
    Bind(Array([i \in Lanes(m) |-> Less64(head1[i], RansL)]), LAMBDA refill :
    Bind(RefillRank(refill, Len(m.head)), LAMBDA used :
    IF used > Len(m.tail) THEN Failure("tail exhausted")
    ELSE [ok |-> TRUE,
          m |-> [head |-> Array([i \in Lanes(m) |->
                             IF refill[i]
                             THEN Or64(Shl(head1[i], WordBits),
                                       WordTo64(m.tail[RefillRank(refill, i)]))
                             ELSE head1[i]]),
                 tail |-> SubSeq(m.tail, used + 1, Len(m.tail))]])))

\* vectorans.flatten: the high words of the lanes, their low words, the tail
VransFlatten(m) ==
    Array([i \in Lanes(m) |-> Word32(Shr(m.head[i], WordBits))])
    \o Array([i \in Lanes(m) |-> Word32(m.head[i])])
    \o m.tail

\* vectorans.unflatten(arr, shape), shape = (size,)
VransUnflatten(arr, size) ==
    [head |-> Array([i \in 1..size |->
                 Or64(Shl(WordTo64(arr[i]), WordBits), WordTo64(arr[size + i]))]),
     tail |-> SubSeq(arr, 2 * size + 1, Len(arr))]

(***************************************************************************)
(* Statistic functions.  A statfun pair is a record:                       *)
(*   [t |-> "uniform"]                    _uniform_enc/dec_statfun         *)
(*   [t |-> "buckets", b |-> rows]        one cumulative-bucket row a lane *)
(*   [t |-> "raw", enc |-> f, dec |-> g]  caller-supplied functions        *)
(* A symbol of a uniform codec is a uint64; any other symbol is a small    *)
(* integer.                                                                *)
(***************************************************************************)
\* _cdf_from_cumulative_buckets(c_buckets)(s): np.take_along_axis of the rows
\* of the table and the symbols, which broadcasts one against the other: one
\* entry a row when the symbols are as many as the rows or a single one, one
\* entry a symbol when the table has a single row
CdfFromCumulativeBuckets(rows, s) ==
    IF Len(s) = Len(rows)
    THEN [ok |-> TRUE, v |-> Array([i \in 1..Len(rows) |-> rows[i][s[i] + 1]])]
    ELSE IF Len(s) = 1
    THEN [ok |-> TRUE, v |-> Array([i \in 1..Len(rows) |-> rows[i][s[1] + 1]])]
    ELSE IF Len(rows) = 1
    THEN [ok |-> TRUE, v |-> Array([i \in 1..Len(s) |-> rows[1][s[i] + 1]])]
    ELSE Failure("ValueError: shape mismatch: objects cannot be broadcast")

\* _cdf_to_enc_statfun(cdf)(s): (lower, cdf(s + 1) - lower)
CdfToEncStatfun(rows, s) ==
    Bind(CdfFromCumulativeBuckets(rows, s), LAMBDA lower :
    Bind(CdfFromCumulativeBuckets(rows, Array([i \in 1..Len(s) |-> s[i] + 1])),
         LAMBDA upper :
    IF ~lower.ok THEN lower
    ELSE [ok |-> TRUE,
          e |-> Array([i \in 1..Len(lower.v) |->
                         <<lower.v[i], upper.v[i] - lower.v[i]>>])]))

\* np.searchsorted(bucket, cf, 'right')
SearchSortedRight(bucket, cf) ==
    Cardinality({j \in 1..Len(bucket) : bucket[j] <= cf})

\* the search taking the left insertion point, the symbol kept at 0 or above
PpfSearchLeft(rows, cfs) ==
    IF Len(cfs) < Len(rows)
    THEN Failure("ValueError: cannot reshape array")
    ELSE [ok |-> TRUE,
          s |-> Array([i \in 1..Len(rows) |->
                  LET left == Cardinality({j \in 1..Len(rows[i]) : rows[i][j] < cfs[i]})
                  IN  IF left = 0 THEN 0 ELSE left - 1])]

\* _ppf_from_cumulative_buckets(c_buckets)(cfs): one search a pair of
\* zip(cumulative_buckets, cfs), which stops at the shorter of the two, and
\* the results reshaped to one entry a row of the table
PpfFromCumulativeBuckets(rows, cfs) ==
    IF Len(cfs) < Len(rows)
    THEN Failure("ValueError: cannot reshape array")
    ELSE [ok |-> TRUE,
          s |-> Array([i \in 1..Len(rows) |-> SearchSortedRight(rows[i], cfs[i]) - 1])]

\* enc_statfun(symbol): one <<start (uint64), freq>> an entry of what the
\* statistic function returns
EncStatfun(sf, symbol) ==
    CASE sf.t = "uniform" ->
            [ok |-> TRUE, e |-> Array([i \in 1..Len(symbol) |-> <<symbol[i], 1>>])]
      [] sf.t = "buckets" ->
            Bind(CdfToEncStatfun(sf.b, symbol), LAMBDA r :
            IF ~r.ok THEN r
            ELSE [ok |-> TRUE,
                  e |-> Array([i \in 1..Len(r.e) |-> <<U64(r.e[i][1]), r.e[i][2]>>])])
      [] sf.t = "raw" ->
            [ok |-> TRUE,
             e |-> Array([i \in 1..Len(symbol) |->
                            <<U64(sf.enc[symbol[i]][1]), sf.enc[symbol[i]][2]>>])]

\* dec_statfun(cf)
DecStatfun(sf, cf) ==
    CASE sf.t = "uniform" -> [ok |-> TRUE, s |-> cf]
      [] sf.t = "buckets" ->
            PpfFromCumulativeBuckets(sf.b, Array([i \in 1..Len(cf) |-> ToInt(cf[i])]))
      [] sf.t = "raw" ->
            [ok |-> TRUE, s |-> Array([i \in 1..Len(cf) |-> sf.dec[ToInt(cf[i])]])]

(***************************************************************************)
(* NonUniform(enc_statfun, dec_statfun, precision).  vrans.push and the    *)
(* pop function take one start and one freq a lane of the head; handed     *)
(* another number of them they fail.                                       *)
(***************************************************************************)
LaneMismatch == Failure("LaneMismatch: starts and head differ in lanes")

NonUniformPush(sf, precs, m, symbol) ==
    Bind(EncStatfun(sf, symbol), LAMBDA r :
    IF ~r.ok THEN r
    ELSE IF Len(r.e) # Len(m.head) THEN LaneMismatch
    ELSE [ok |-> TRUE,
          m |-> VransPush(m, Array([i \in Lanes(m) |-> r.e[i][1]]),
                             Array([i \in Lanes(m) |-> r.e[i][2]]), precs)])

\* the interval check without its upper end
IntervalHoldsFromStart(cf, e) == Leq64(e[1], cf)

\* the interval check of NonUniform.pop in one lane: start <= cf < start + freq
IntervalHolds(cf, e) == Leq64(e[1], cf) /\ Less64(cf, Add64(e[1], U64(e[2])))

\* pop: on success the record also holds the (start, freq) handed to pop_fun.
\* The assert compares the starts with the cfs as numpy broadcasts them: lane
\* by lane when they are as many, a single one against all the others.
NonUniformPop(sf, precs, m) ==
    Bind(VransPeek(m, precs), LAMBDA cf :
    Bind(DecStatfun(sf, cf), LAMBDA d :
    IF ~d.ok THEN d ELSE
    Bind(EncStatfun(sf, d.s), LAMBDA r :
    IF ~r.ok THEN r
    ELSE IF Len(r.e) # Len(cf) /\ Len(r.e) # 1 /\ Len(cf) # 1
    THEN Failure("ValueError: operands could not be broadcast together")
    ELSE IF \E i \in 1..Max(Len(cf), Len(r.e)) :
              ~IntervalHolds(cf[IF Len(cf) = 1 THEN 1 ELSE i],
                             r.e[IF Len(r.e) = 1 THEN 1 ELSE i])
    THEN Failure("assert np.all(start <= cf) and np.all(cf < start + freq)")
    ELSE IF Len(r.e) # Len(m.head) THEN LaneMismatch
    ELSE Bind(VransFinish(m, precs, Array([i \in Lanes(m) |-> r.e[i][1]]),
                                    Array([i \in Lanes(m) |-> r.e[i][2]])), LAMBDA f :
         IF f.ok THEN [ok |-> TRUE, m |-> f.m, s |-> d.s, finish |-> r.e] ELSE f))))

(***************************************************************************)
(* Cumulative-bucket tables.  A probability vector is a sequence of        *)
(* numerators over a common denominator den.                               *)
(***************************************************************************)
RECURSIVE SumTo(_, _)
SumTo(f, i) == IF i = 0 THEN 0 ELSE f[i] + SumTo(f, i - 1)

\* np.cumsum(f)
CumSum(f) == [i \in 1..Len(f) |-> SumTo(f, i)]

\* np.argmax(f): the first index of the largest entry
ArgMax(f) ==
    CHOOSE i \in 1..Len(f) :
        /\ \A j \in 1..Len(f) : f[j] <= f[i]
        /\ \A j \in 1..(i - 1) : f[j] < f[i]

\* the rounding without the replacement of zero frequencies
RoundedProbsKeepZero(probs, den, precision) ==
    [i \in 1..Len(probs) |-> NpRint(probs[i] * 2^precision, den)]

\* probs = np.rint(probs * (1 << precision)); probs[probs == 0] = 1
RoundedProbs(probs, den, precision) ==
    [i \in 1..Len(probs) |->
       LET f == NpRint(probs[i] * 2^precision, den) IN IF f = 0 THEN 1 ELSE f]

\* _cumulative_buckets_from_probs(probs, precision), one row of probs
CumulativeBucketsFromProbs(probs, den, precision) ==
    LET f == RoundedProbs(probs, den, precision)
        a == ArgMax(f)
        diffs == 2^precision - SumTo(f, Len(f))
        lowered == [f EXCEPT ![a] = f[a] + diffs]
    IN  IF f[a] + diffs <= 0
        THEN Failure("cannot rebalance buckets, consider increasing precision")
        ELSE [ok |-> TRUE, b |-> <<0>> \o CumSum(lowered)]

(***************************************************************************)
(* Codecs are values:                                                      *)
(*   [k |-> "NonUniform", sf |-> statfuns, prec |-> p]                     *)
(*   [k |-> "repeat", codec |-> c, n |-> n]                                *)
(*   [k |-> "serial", codecs |-> <<c1, ..., cn>>]                          *)
(*   [k |-> "substack", codec |-> c, view |-> lanes]                       *)
(*   [k |-> "parallel", codecs |-> <<...>>, views |-> <<...>>]             *)
(* push returns [ok |-> TRUE, m |-> message] and pop returns               *)
(* [ok |-> TRUE, m |-> message, s |-> data]; a raised exception is         *)
(* [ok |-> FALSE, err |-> why].                                            *)
(***************************************************************************)
Broadcast(m, p) == Array([i \in Lanes(m) |-> p])

\* Uniform(precision)
Uniform(p) == [k |-> "NonUniform", sf |-> [t |-> "uniform"], prec |-> p]

\* Categorical(p, prec), p one probability row a lane (every row rebalances)
Categorical(p, den, prec) ==
    [k |-> "NonUniform",
     sf |-> [t |-> "buckets",
             b |-> [i \in 1..Len(p) |-> CumulativeBucketsFromProbs(p[i], den, prec).b]],
     prec |-> prec]

\* util.view_update(head, view_fun): the subhead view_fun selects ...
ViewOf(head, view) == Array([j \in 1..Len(view) |-> head[view[j]]])

\* ... and update(subhead): head with the selected lanes replaced
UpdateView(head, view, subhead) ==
    Array([i \in 1..Len(head) |->
             IF \E j \in 1..Len(view) : view[j] = i
             THEN subhead[CHOOSE j \in 1..Len(view) : view[j] = i]
             ELSE head[i]])

\* the list comprehension of parallel: zip(codecs, view_funs) wrapped in substack
ParallelCodecs(c) ==
    [j \in 1..Min(Len(c.codecs), Len(c.views)) |->
       [k |-> "substack", codec |-> c.codecs[j], view |-> c.views[j]]]

RECURSIVE Push(_, _, _)
RECURSIVE Pop(_, _)
RECURSIVE RepeatPushLoop(_, _, _, _)
RECURSIVE RepeatPopLoop(_, _, _, _)
RECURSIVE SerialPushLoop(_, _, _, _)
RECURSIVE SerialPopLoop(_, _, _, _)

\* repeat pushing its symbols first to last
RECURSIVE RepeatPushForward(_, _, _, _)
RepeatPushForward(c, m, symbols, i) ==
    IF i = 0 THEN [ok |-> TRUE, m |-> m]
    ELSE Bind(Push(c, m, symbols[Len(symbols) + 1 - i]), LAMBDA r :
              IF r.ok THEN RepeatPushForward(c, r.m, symbols, i - 1) ELSE r)

\* for symbol in reversed(symbols): message = push_(message, symbol)
RepeatPushLoop(c, m, symbols, i) ==
    IF i = 0 THEN [ok |-> TRUE, m |-> m]
    ELSE Bind(Push(c, m, symbols[i]), LAMBDA r :
              IF r.ok THEN RepeatPushLoop(c, r.m, symbols, i - 1) ELSE r)

\* for i in range(n): message, symbol = pop_(message); symbols.append(symbol)
RepeatPopLoop(c, m, left, symbols) ==
    IF left = 0 THEN [ok |-> TRUE, m |-> m, s |-> symbols]
    ELSE Bind(Pop(c, m), LAMBDA r :
              IF r.ok THEN RepeatPopLoop(c, r.m, left - 1, Append(symbols, r.s)) ELSE r)

\* for (push, _), symbol in reversed(list(zip(codecs, symbols)))
SerialPushLoop(codecs, m, symbols, i) ==
    IF i = 0 THEN [ok |-> TRUE, m |-> m]
    ELSE Bind(Push(codecs[i], m, symbols[i]), LAMBDA r :
              IF r.ok THEN SerialPushLoop(codecs, r.m, symbols, i - 1) ELSE r)

\* for _, pop in codecs: message, symbol = pop(message); symbols.append(symbol)
SerialPopLoop(codecs, m, i, symbols) ==
    IF i > Len(codecs) THEN [ok |-> TRUE, m |-> m, s |-> symbols]
    ELSE Bind(Pop(codecs[i], m), LAMBDA r :
              IF r.ok THEN SerialPopLoop(codecs, r.m, i + 1, Append(symbols, r.s)) ELSE r)

RepeatPush(c, m, symbols) ==
    IF Len(symbols) # c.n THEN Failure("assert np.shape(symbols)[0] == n")
    ELSE RepeatPushLoop(c.codec, m, symbols, Len(symbols))

RepeatPop(c, m) == RepeatPopLoop(c.codec, m, c.n, <<>>)

SerialPush(c, m, symbols) ==
    SerialPushLoop(c.codecs, m, symbols, Min(Len(c.codecs), Len(symbols)))

SerialPop(c, m) == SerialPopLoop(c.codecs, m, 1, <<>>)

\* substack writing the subhead back over the first lanes of the head
SubstackPushFirstLanes(c, m, data) ==
    Bind(Push(c.codec, [head |-> ViewOf(m.head, c.view), tail |-> m.tail], data), LAMBDA r :
    IF r.ok
    THEN [ok |-> TRUE,
          m |-> [head |-> r.m.head \o SubSeq(m.head, Len(r.m.head) + 1, Len(m.head)),
                 tail |-> r.m.tail]]
    ELSE r)

\* substack(codec, view_fun)
SubstackPush(c, m, data) ==
    Bind(Push(c.codec, [head |-> ViewOf(m.head, c.view), tail |-> m.tail], data), LAMBDA r :
    IF r.ok
    THEN [ok |-> TRUE,
          m |-> [head |-> UpdateView(m.head, c.view, r.m.head), tail |-> r.m.tail]]
    ELSE r)

SubstackPop(c, m) ==
    Bind(Pop(c.codec, [head |-> ViewOf(m.head, c.view), tail |-> m.tail]), LAMBDA r :
    IF r.ok
    THEN [ok |-> TRUE,
          m |-> [head |-> UpdateView(m.head, c.view, r.m.head), tail |-> r.m.tail],
          s |-> r.s]
    ELSE r)

ParallelPush(c, m, symbols) ==
    Bind(ParallelCodecs(c), LAMBDA codecs :
    IF Len(symbols) # Len(codecs) THEN Failure("assert len(symbols) == len(codecs)")
    ELSE SerialPushLoop(codecs, m, symbols, Min(Len(codecs), Len(symbols))))

ParallelPop(c, m) == SerialPopLoop(ParallelCodecs(c), m, 1, <<>>)

\* Benford64.push(message, x), x one uint64 a lane
BenfordLower(x) == LowBits(x, 31)

\* x_len = np.uint64(np.log2(x)); the length symbol is x_len - 31
BenfordLen(x) == NpLog2(x) - 31

\* x = x & ((1 << x_len) - 1); the higher symbol is x >> 31
BenfordHigher(x) == Shr(LowBits(x, NpLog2(x)), 31)

BenfordPush(m, x) ==
    Bind(NonUniformPush([t |-> "uniform"], Broadcast(m, 31), m,
                        Array([i \in Lanes(m) |-> BenfordLower(x[i])])), LAMBDA lower :
    Bind(Array([i \in Lanes(m) |-> BenfordLen(x[i])]), LAMBDA len :
    Bind(NonUniformPush([t |-> "uniform"], len, lower.m,
                        Array([i \in Lanes(m) |-> BenfordHigher(x[i])])), LAMBDA higher :
    NonUniformPush([t |-> "uniform"], Broadcast(m, 5), higher.m,
                   Array([i \in Lanes(m) |-> U64(len[i])])))))

\* Benford64.pop(message)
BenfordPop(m) ==
    Bind(NonUniformPop([t |-> "uniform"], Broadcast(m, 5), m), LAMBDA length :
    IF ~length.ok THEN length ELSE
    Bind(Array([i \in Lanes(m) |-> ToInt(length.s[i]) + 31]), LAMBDA x_len :
    Bind(NonUniformPop([t |-> "uniform"],
                       Array([i \in Lanes(m) |-> x_len[i] - 31]), length.m), LAMBDA higher :
    IF ~higher.ok THEN higher ELSE
    Bind(NonUniformPop([t |-> "uniform"], Broadcast(m, 31), higher.m), LAMBDA lower :
    IF ~lower.ok THEN lower ELSE
    [ok |-> TRUE, m |-> lower.m,
     s |-> Array([i \in Lanes(m) |->
                    Or64(Or64(Pow64(x_len[i]), Shl(higher.s[i], 31)), lower.s[i])])]))))

Benford64 == [k |-> "Benford64"]

(***************************************************************************)
(* AutoRegressive(param_fn, data_shape, params_shape, elem_idxs, elem_codec)*)
(* as [k |-> "AutoRegressive", param_fn |-> pf, elem_idxs |-> idxs,        *)
(* elem_codec |-> ec].  The data is a sequence of small integers, one an   *)
(* element, coded on a one-lane head.  A param_fn is one of                *)
(*   [t |-> "prefix", ord |-> o]  the sum of the elements before idx in o  *)
(*   [t |-> "const"]              idx itself, whatever the data            *)
(*   [t |-> "total"]              the sum of every element                 *)
(***************************************************************************)
\* the elements before idx in the sequence ord
Before(ord, idx) ==
    {ord[j] : j \in {j \in 1..Len(ord) : \E l \in (j + 1)..Len(ord) : ord[l] = idx}}

RECURSIVE SumOver(_, _)
SumOver(data, idxs) ==
    IF idxs = {} THEN 0
    ELSE LET j == CHOOSE j \in idxs : TRUE IN data[j] + SumOver(data, idxs \ {j})

\* param_fn(data), and param_fn(data, all_params, idx): the parameters of
\* every element, computed from the data buffer
ParamFn(pf, data) ==
    Array([idx \in 1..Len(data) |->
             CASE pf.t = "prefix" -> SumOver(data, Before(pf.ord, idx))
               [] pf.t = "const"  -> idx
               [] pf.t = "total"  -> SumOver(data, 1..Len(data))])

\* elem_codec(elem_params, idx): a NonUniform codec whose intervals are
\* shifted by the parameters
ElemCodec(ec, elem_params, idx) ==
    [k |-> "NonUniform",
     sf |-> [t |-> "raw",
             enc |-> [sym \in 0..(ec.size - 1) |->
                        <<ec.freq * ((sym + elem_params) % ec.size), ec.freq>>],
             dec |-> [cf \in 0..(ec.freq * ec.size - 1) |->
                        ((cf \div ec.freq) - elem_params) % ec.size]],
     prec |-> ec.prec]

Reverse(seq) == [i \in 1..Len(seq) |-> seq[Len(seq) + 1 - i]]

\* push taking the elements in elem_idxs order
PushOrderForward(elem_idxs) == elem_idxs

\* for idx in reversed(elem_idxs)
PushOrder(elem_idxs) == Reverse(elem_idxs)

\* the loop of push over order[i..], with the elements pushed so far
RECURSIVE AutoRegressivePushLoop(_, _, _, _, _, _)
AutoRegressivePushLoop(c, m, data, all_params, order, i) ==
    IF i > Len(order) THEN [ok |-> TRUE, m |-> m, order |-> order]
    ELSE Bind(Push(ElemCodec(c.elem_codec, all_params[order[i]], order[i]), m,
                   <<data[order[i]]>>), LAMBDA r :
              IF r.ok
              THEN AutoRegressivePushLoop(c, r.m, data, all_params, order, i + 1)
              ELSE r)

AutoRegressivePush(c, m, data) ==
    AutoRegressivePushLoop(c, m, data, ParamFn(c.param_fn, data), PushOrder(c.elem_idxs), 1)

\* the loop of pop from elem_idxs[i]; trace holds, for every element decoded
\* so far, the data buffer param_fn was given for it
RECURSIVE AutoRegressivePopLoop(_, _, _, _, _)
AutoRegressivePopLoop(c, m, data, trace, i) ==
    IF i > Len(c.elem_idxs) THEN [ok |-> TRUE, m |-> m, s |-> data, trace |-> trace]
    ELSE Bind(c.elem_idxs[i], LAMBDA idx :
         Bind(Pop(ElemCodec(c.elem_codec, ParamFn(c.param_fn, data)[idx], idx), m),
              LAMBDA r :
              IF r.ok
              THEN AutoRegressivePopLoop(c, r.m, [data EXCEPT ![idx] = r.s[1]],
                                         Append(trace, [idx |-> idx, data |-> data]),
                                         i + 1)
              ELSE r))

\* data = np.zeros(data_shape), then the loop
AutoRegressivePop(c, m) ==
    AutoRegressivePopLoop(c, m, Array([j \in 1..Len(c.elem_idxs) |-> 0]), <<>>, 1)

Push(c, m, data) ==
    CASE c.k = "NonUniform" -> NonUniformPush(c.sf, Broadcast(m, c.prec), m, data)
      [] c.k = "repeat"     -> RepeatPush(c, m, data)
      [] c.k = "serial"     -> SerialPush(c, m, data)
      [] c.k = "substack"   -> SubstackPush(c, m, data)
      [] c.k = "parallel"   -> ParallelPush(c, m, data)
      [] c.k = "Benford64"  -> BenfordPush(m, data)
      [] c.k = "AutoRegressive" -> AutoRegressivePush(c, m, data)

Pop(c, m) ==
    CASE c.k = "NonUniform" -> NonUniformPop(c.sf, Broadcast(m, c.prec), m)
      [] c.k = "repeat"     -> RepeatPop(c, m)
      [] c.k = "serial"     -> SerialPop(c, m)
      [] c.k = "substack"   -> SubstackPop(c, m)
      [] c.k = "parallel"   -> ParallelPop(c, m)
      [] c.k = "Benford64"  -> BenfordPop(m)
      [] c.k = "AutoRegressive" -> AutoRegressivePop(c, m)

\* shape(message), the head a one-dimensional array
Shape(m) == <<Len(m.head)>>

(***************************************************************************)
(* Head reshaping                                                          *)
(***************************************************************************)
\* _fold_sizes(small, big), 1 <= small <= big
RECURSIVE FoldSizes(_, _)
FoldSizes(small, big) ==
    IF small = big THEN <<small>>
    ELSE <<small>> \o FoldSizes(IF 2 * small <= big THEN 2 * small ELSE big, big)

\* _fold_codec(diff): substack(Benford64, lambda head: head[:diff])
FoldCodec(diff) ==
    [k |-> "substack", codec |-> Benford64, view |-> Array([j \in 1..diff |-> j])]

\* _fold_codecs(sizes)
FoldCodecs(sizes) ==
    Array([i \in 1..(Len(sizes) - 1) |-> FoldCodec(sizes[i + 1] - sizes[i])])

\* the shrinking loop of _resize_head_1d, from the last fold to the first
RECURSIVE ShrinkLoop(_, _, _, _)
ShrinkLoop(codecs, sizes, m, i) ==
    IF i = 0 THEN [ok |-> TRUE, m |-> m]
    ELSE Bind(Push(codecs[i],
                   [head |-> SubSeq(m.head, 1, sizes[i]), tail |-> m.tail],
                   SubSeq(m.head, sizes[i] + 1, Len(m.head))), LAMBDA r :
              IF r.ok THEN ShrinkLoop(codecs, sizes, r.m, i - 1) ELSE r)

\* the growing loop of _resize_head_1d, from the first fold to the last
RECURSIVE GrowLoop(_, _, _)
GrowLoop(codecs, m, i) ==
    IF i > Len(codecs) THEN [ok |-> TRUE, m |-> m]
    ELSE Bind(Pop(codecs[i], m), LAMBDA r :
              IF r.ok
              THEN GrowLoop(codecs, [head |-> r.m.head \o r.s, tail |-> r.m.tail], i + 1)
              ELSE r)

\* _resize_head_1d(message, size)
ResizeHead1d(m, size) ==
    Bind(FoldSizes(Min(size, Len(m.head)), Max(size, Len(m.head))), LAMBDA sizes :
    Bind(FoldCodecs(sizes), LAMBDA codecs :
    IF size < Len(m.head) THEN ShrinkLoop(codecs, sizes, m, Len(codecs))
    ELSE IF size > Len(m.head) THEN GrowLoop(codecs, m, 1)
    ELSE [ok |-> TRUE, m |-> m]))

\* reshape_head(message, shape), shape = (size,)
ReshapeHead(m, shape) == ResizeHead1d(m, shape[1])

\* flatten(message)
Flatten(m) ==
    Bind(ReshapeHead(m, <<1>>), LAMBDA r :
    IF r.ok THEN [ok |-> TRUE, arr |-> VransFlatten(r.m)] ELSE r)

\* unflatten(arr, shape)
Unflatten(arr, shape) == ReshapeHead(VransUnflatten(arr, 1), shape)

(***************************************************************************)
(* Valid data of a codec over a head of the given number of lanes          *)
(***************************************************************************)
RECURSIVE DataOf(_, _)
DataOf(c, lanes) ==
    CASE c.k = "NonUniform" /\ c.sf.t = "buckets" ->
            [1..lanes -> 0..(Len(c.sf.b[1]) - 2)]
      [] c.k = "NonUniform" /\ c.sf.t = "uniform" ->
            [1..lanes -> {U64(v) : v \in 0..(2^c.prec - 1)}]
      [] c.k = "repeat" -> [1..c.n -> DataOf(c.codec, lanes)]
      [] c.k = "serial" ->
            {d \in [1..Len(c.codecs) ->
                      UNION {DataOf(c.codecs[j], lanes) : j \in 1..Len(c.codecs)}] :
               \A j \in 1..Len(c.codecs) : d[j] \in DataOf(c.codecs[j], lanes)}

(***************************************************************************)
(* Messages the checks start from: the base message (every lane 2^31, the  *)
(* tail empty) and messages whose lanes are high enough that a push        *)
(* renormalises, over a tail that already holds words.                     *)
(***************************************************************************)
Max63 == <<65535, 65535, 65535, 32767>>

BaseMessage(lanes) == [head |-> [i \in 1..lanes |-> RansL], tail |-> <<>>]

FullMessage(lanes) ==
    [head |-> [i \in 1..lanes |->
                 IF i % 2 = 1 THEN Max63 ELSE Add64(Pow64(62), U64(12345 + i))],
     tail |-> <<<<48879, 57005>>, <<4660, 22136>>>>]

MidMessage(lanes) ==
    [head |-> [i \in 1..lanes |-> Add64(Pow64(60), MulSmall(Pow64(33), 7 * i))],
     tail |-> <<<<1, 0>>>>]

StartMessages(lanes) == {BaseMessage(lanes), FullMessage(lanes)}

(***************************************************************************)
(* Round trips of NonUniform, repeat and serial codecs                     *)
(***************************************************************************)
MaxDepth == 2

\* tables of two rows, for a head of two lanes
Cat2 == Categorical(<<<<1, 3>>, <<2, 2>>>>, 4, 2)

\* tables of one row, for a head of one lane
Cat1 == Categorical(<<<<1, 3>>>>, 4, 2)

Cat3 == Categorical(<<<<1, 5, 2>>>>, 8, 3)

Skew2 == Categorical(<<<<999999, 1>>>>, 1000000, 8)

\* the codecs under test, each with the number of head lanes it is run on:
\* the rows of every table are as many as the lanes
RoundTripCodecs ==
    { [codec |-> Cat2, lanes |-> 2],
      [codec |-> Cat3, lanes |-> 1],
      [codec |-> Uniform(1), lanes |-> 2],
      [codec |-> [k |-> "repeat", codec |-> Cat2, n |-> 2], lanes |-> 2],
      [codec |-> [k |-> "repeat", codec |-> Cat3, n |-> 2], lanes |-> 1],
      [codec |-> [k |-> "serial", codecs |-> <<Cat1, Skew2>>], lanes |-> 1],
      [codec |-> [k |-> "serial",
                  codecs |-> <<[k |-> "repeat", codec |-> Skew2, n |-> 2], Cat1>>],
       lanes |-> 1],
      [codec |-> [k |-> "repeat",
                  codec |-> [k |-> "serial", codecs |-> <<Cat1, Skew2>>], n |-> 2],
       lanes |-> 1] }

RtInit ==
    /\ \E sc \in RoundTripCodecs :
         /\ input = sc
         /\ codec = sc.codec
         /\ message \in StartMessages(sc.lanes)
    /\ pushed = <<>>
    /\ result = [op |-> "init"]

\* message = push(message, data), before the first pop
RtPush ==
    /\ result.op # "pop"
    /\ Len(pushed) < MaxDepth
    /\ \E data \in DataOf(codec, Len(message.head)) :
         /\ result' = [op |-> "push", r |-> Push(codec, message, data)]
         /\ result'.r.ok
         /\ message' = result'.r.m
         /\ pushed' = Append(pushed, [before |-> message, data |-> data])
    /\ UNCHANGED <<input, codec>>

\* message, data = pop(message), after a push not yet popped
RtPop ==
    /\ Len(pushed) > 0
    /\ result' = [op |-> "pop", r |-> Pop(codec, message), expect |-> pushed[Len(pushed)]]
    /\ message' = IF result'.r.ok THEN result'.r.m ELSE message
    /\ pushed' = SubSeq(pushed, 1, Len(pushed) - 1)
    /\ UNCHANGED <<input, codec>>

RtNext == RtPush \/ RtPop

SpecRoundTrip == RtInit /\ [][RtNext]_vars

\* C1: a pop after the matching push returns exactly the message the push was
\* given and the data it pushed, the elements in their original order, also
\* when several pushes are undone in reverse order.
RoundTripExact ==
    result.op = "pop" =>
        /\ result.r.ok
        /\ result.r.s = result.expect.data
        /\ message = result.expect.before

\* a nested codec popped an ordered pair of different elements, with an
\* earlier push still to undo, and the push had renormalised into the tail
RoundTripSeen ==
    /\ result.op = "pop"
    /\ result.r.ok
    /\ codec.k = "repeat"
    /\ codec.codec.k = "serial"
    /\ result.r.s[1] # result.r.s[2]
    /\ result.r.s[1][1] # result.r.s[1][2]
    /\ Len(pushed) >= 1
    /\ Len(message.tail) > Len(pushed[1].before.tail)

(***************************************************************************)
(* Cumulative-bucket tables and their statistic functions                  *)
(***************************************************************************)
MaxTablePrec == 2

MaxAlphabet == 3

\* probability rows: every vector of rounded frequencies 0..2^p over an
\* alphabet of up to MaxAlphabet symbols (the denominator 2^p makes the
\* rounding exact), and the skewed pair at precision 8
TableInputs ==
    { [p |-> f, den |-> 2^prec, prec |-> prec] :
        prec \in 1..MaxTablePrec,
        f \in UNION {[1..k -> 0..(2^MaxTablePrec)] : k \in 1..MaxAlphabet} }
    \cup { [p |-> <<999999, 1>>, den |-> 1000000, prec |-> 8],
           [p |-> <<1, 999999>>, den |-> 1000000, prec |-> 8],
           [p |-> <<1, 1, 1>>, den |-> 3, prec |-> 4],
           [p |-> <<5, 5, 5, 5, 980>>, den |-> 1000, prec |-> 3] }

TbInit ==
    /\ input \in {t \in TableInputs : \A i \in 1..Len(t.p) : t.p[i] <= t.den}
    /\ codec = [k |-> "none"]
    /\ message = <<>>
    /\ pushed = <<>>
    /\ result = [op |-> "init"]

\* cumulative_buckets = _cumulative_buckets_from_probs(p, prec), and the codec
\* Categorical builds from it
TbBuild ==
    /\ result.op = "init"
    /\ LET r == CumulativeBucketsFromProbs(input.p, input.den, input.prec)
       IN  /\ result' = [op |-> "build", ok |-> r.ok, b |-> IF r.ok THEN r.b ELSE <<>>]
           /\ codec' = IF r.ok THEN Categorical(<<input.p>>, input.den, input.prec)
                       ELSE codec
    /\ UNCHANGED <<input, message, pushed>>

\* symbol = dec_statfun(cf); start, freq = enc_statfun(symbol)
TbDecode ==
    /\ result.op = "build"
    /\ result.ok
    /\ \E cf \in 0..(2^codec.prec - 1) :
         LET sym == DecStatfun(codec.sf, <<U64(cf)>>).s[1]
         IN  result' = [op |-> "dec", cf |-> cf, s |-> sym,
                        e |-> EncStatfun(codec.sf, <<sym>>).e[1]]
    /\ UNCHANGED <<input, codec, message, pushed>>

\* start, freq = enc_statfun(symbol), and dec_statfun over that interval
TbEncode ==
    /\ result.op = "build"
    /\ result.ok
    /\ \E sym \in 0..(Len(input.p) - 1) :
         LET e == EncStatfun(codec.sf, <<sym>>).e[1]
         IN  result' = [op |-> "enc", s |-> sym, e |-> e,
                        dec |-> [cf \in ToInt(e[1])..(ToInt(e[1]) + e[2] - 1) |->
                                   DecStatfun(codec.sf, <<U64(cf)>>).s[1]]]
    /\ UNCHANGED <<input, codec, message, pushed>>

TbNext == TbBuild \/ TbDecode \/ TbEncode

SpecTables == TbInit /\ [][TbNext]_vars

\* C2: a table _cumulative_buckets_from_probs returns starts at 0, ends at
\* 2^precision, and every adjacent gap is at least 1 (so it is non-decreasing
\* and the widths sum to 2^precision), whatever the rounded frequencies.
BucketsPartition ==
    (result.op = "build" /\ result.ok) =>
        /\ Len(result.b) = Len(input.p) + 1
        /\ result.b[1] = 0
        /\ result.b[Len(result.b)] = 2^input.prec
        /\ \A j \in 1..(Len(result.b) - 1) : result.b[j + 1] - result.b[j] >= 1

\* a table was built from a vector with a frequency that rounds to zero and a
\* sum that is not 2^precision
BucketsRebalanced ==
    /\ result.op = "build"
    /\ result.ok
    /\ \E i \in 1..Len(input.p) : NpRint(input.p[i] * 2^input.prec, input.den) = 0
    /\ SumTo(RoundedProbs(input.p, input.den, input.prec), Len(input.p)) # 2^input.prec
    /\ Len(input.p) >= 3

\* C3: the decode statfun of a table codec returns, for every cf in
\* [0, 2^precision), the one symbol whose bucket holds cf, and the encode
\* statfun of that symbol is the bucket (start, width); every cf of a symbol's
\* interval decodes back to the symbol, also for the skewed pair at precision 8.
TableStatfunsInverse ==
    /\ result.op = "dec" =>
         /\ result.s \in 0..(Len(input.p) - 1)
         /\ codec.sf.b[1][result.s + 1] <= result.cf
         /\ result.cf < codec.sf.b[1][result.s + 2]
         /\ \A t \in 0..(Len(input.p) - 1) :
              (codec.sf.b[1][t + 1] <= result.cf /\ result.cf < codec.sf.b[1][t + 2])
                  => t = result.s
         /\ result.e = <<U64(codec.sf.b[1][result.s + 1]),
                         codec.sf.b[1][result.s + 2] - codec.sf.b[1][result.s + 1]>>
    /\ result.op = "enc" =>
         /\ result.e[2] > 0
         /\ \A cf \in DOMAIN result.dec : result.dec[cf] = result.s

\* symbol 1 of p = [0.999999, 0.000001] at precision 8 got the interval
\* (255, 1) and cf = 255 decodes to it
TableSkewedSeen ==
    /\ result.op = "enc"
    /\ input.p = <<999999, 1>>
    /\ input.prec = 8
    /\ result.s = 1
    /\ result.e = <<U64(255), 1>>
    /\ result.dec[255] = 1

(***************************************************************************)
(* Benford64 on its own                                                    *)
(***************************************************************************)
\* the integers pushed: both ends of every binade of [2^31, 2^63), the
\* scenario value 2^31 + 12345, and values between
BenfordInputs ==
    {Pow64(k) : k \in 31..62}
    \cup {Sub64(Pow64(k + 1), U64(1)) : k \in 31..62}
    \cup {Add64(Pow64(31), U64(12345)), Add64(Pow64(40), U64(54321)),
          Sub64(Pow64(63), U64(513)), Sub64(Pow64(63), U64(512)),
          <<4660, 22136, 48879, 4660>>}

BfInit ==
    /\ \E x \in BenfordInputs : input = <<x>>
    /\ codec = Benford64
    /\ message \in StartMessages(1)
    /\ pushed = <<>>
    /\ result = [op |-> "init"]

\* message = push(message, x), with the three symbols it hands to Uniform
BfPush ==
    /\ result.op = "init"
    /\ result' = [op |-> "push",
                  r |-> Push(codec, message, input),
                  low |-> BenfordLower(input[1]),
                  high |-> BenfordHigher(input[1]),
                  length |-> BenfordLen(input[1])]
    /\ message' = result'.r.m
    /\ pushed' = <<[before |-> message, data |-> input]>>
    /\ UNCHANGED <<input, codec>>

\* message, x = pop(message)
BfPop ==
    /\ result.op = "push"
    /\ result' = [op |-> "pop", r |-> Pop(codec, message)]
    /\ message' = IF result'.r.ok THEN result'.r.m ELSE message
    /\ UNCHANGED <<input, codec, pushed>>

BfNext == BfPush \/ BfPop

SpecBenford == BfInit /\ [][BfNext]_vars

\* floor(log2 x) of a uint64
FloorLog2(x) == BitLen64(x) - 1

\* C4: Benford64 pushes the low 31 bits, the high bits without the leading 1
\* and the length floor(log2 x) - 31, which is in 0..31, and pop returns
\* exactly x and the message the push was given, for every 2^31 <= x < 2^63.
BenfordRoundTrip ==
    /\ result.op = "push" =>
         /\ result.low = LowBits(input[1], 31)
         /\ result.length = FloorLog2(input[1]) - 31
         /\ result.length \in 0..31
         /\ result.high = Shr(Sub64(input[1], Pow64(FloorLog2(input[1]))), 31)
    /\ result.op = "pop" =>
         /\ result.r.ok
         /\ result.r.s = input
         /\ message = pushed[1].before

\* 2^31 + 12345 is pushed as low = 12345, high = 0, length = 0 and popped back
BenfordScenario ==
    (input = <<Add64(Pow64(31), U64(12345))>>) =>
        /\ result.op = "push" =>
             /\ result.low = U64(12345)
             /\ result.high = Zero64
             /\ result.length = 0
        /\ result.op = "pop" => (result.r.ok /\ result.r.s = input
                                    /\ message = pushed[1].before)

(***************************************************************************)
(* reshape_head there and back, flatten and unflatten                      *)
(***************************************************************************)
MaxLanes == 3

MaxTarget == 4

\* head lanes: the lowest and the highest rANS state and two between
LaneValues ==
    {RansL, Max63, Add64(Pow64(40), U64(54321)), <<4660, 22136, 48879, 4660>>}

\* tails with the words a grow to MaxTarget lanes can need
ReshapeTails ==
    { <<<<65535, 65535>>, <<65535, 65535>>, <<4660, 22136>>, <<0, 32768>>,
        <<48879, 57005>>, <<1, 0>>, <<65535, 32767>>, <<0, 0>>, <<7, 7>>>>,
      <<<<0, 0>>, <<4660, 22136>>, <<65535, 65535>>, <<1, 0>>, <<51966, 47806>>,
        <<65535, 32767>>, <<0, 32768>>, <<2, 3>>, <<9, 9>>>> }

ReshapeMessages ==
    { [head |-> h, tail |-> t] :
        h \in UNION {[1..a -> LaneValues] : a \in 1..MaxLanes}, t \in ReshapeTails }

RsInit ==
    /\ input \in 1..MaxTarget
    /\ codec = [k |-> "none"]
    /\ message \in ReshapeMessages
    /\ pushed = <<>>
    /\ result = [op |-> "init"]

\* message = reshape_head(message, (b,))
RsThere ==
    /\ result.op = "init"
    /\ result' = [op |-> "there", r |-> ReshapeHead(message, <<input>>)]
    /\ message' = IF result'.r.ok THEN result'.r.m ELSE message
    /\ pushed' = <<[before |-> message]>>
    /\ UNCHANGED <<input, codec>>

\* message = reshape_head(message, (a,)), a the head size at the start
RsBack ==
    /\ result.op = "there"
    /\ result.r.ok
    /\ result' = [op |-> "back", r |-> ReshapeHead(message, Shape(pushed[1].before))]
    /\ message' = IF result'.r.ok THEN result'.r.m ELSE message
    /\ UNCHANGED <<input, codec, pushed>>

RsNext == RsThere \/ RsBack

SpecReshape == RsInit /\ [][RsNext]_vars

\* C5: reshaping a head of size a to size b and back gives the head shape of
\* the start, and when b >= a (the tail holding the words the grow needs) the
\* message of the start, head and tail.
ReshapeThereAndBack ==
    result.op = "back" =>
        /\ result.r.ok
        /\ Shape(message) = Shape(pushed[1].before)
        /\ (input >= Len(pushed[1].before.head)) => (message = pushed[1].before)

FlInit ==
    /\ input = <<>>
    /\ codec = [k |-> "none"]
    /\ message \in ReshapeMessages
    /\ pushed = <<>>
    /\ result = [op |-> "init"]

\* arr = flatten(message)
FlFlatten ==
    /\ result.op = "init"
    /\ result' = [op |-> "flatten", r |-> Flatten(message)]
    /\ pushed' = <<[before |-> message]>>
    /\ UNCHANGED <<input, codec, message>>

\* message = unflatten(arr, shape(message))
FlUnflatten ==
    /\ result.op = "flatten"
    /\ result.r.ok
    /\ result' = [op |-> "unflatten", r |-> Unflatten(result.r.arr, Shape(message))]
    /\ message' = IF result'.r.ok THEN result'.r.m ELSE message
    /\ UNCHANGED <<input, codec, pushed>>

FlNext == FlFlatten \/ FlUnflatten

SpecFlatten == FlInit /\ [][FlNext]_vars

\* C6: unflatten(flatten(m), shape(m)) is m, every head lane and the tail.
FlattenInverse ==
    result.op = "unflatten" =>
        /\ result.r.ok
        /\ message = pushed[1].before

(***************************************************************************)
(* NonUniform.pop under statistic functions that need not agree            *)
(***************************************************************************)
PopLanes == 2

\* encode intervals a caller-supplied enc_statfun may return for a symbol
PopIntervals == {<<0, 2>>, <<2, 2>>, <<1, 1>>, <<0, 4>>}

\* every pair of a decode function on [0, 4) and an encode function on the
\* symbols {0, 1}, for a codec of precision 2
PopStatfuns ==
    { [t |-> "raw", enc |-> e, dec |-> d] :
        e \in [0..1 -> PopIntervals], d \in [0..3 -> 0..1] }

\* heads whose lanes hold every cumulative value, over a tail with a word for
\* every lane
PopMessages ==
    { [head |-> h, tail |-> [i \in 1..PopLanes |-> <<4660 + i, 22136>>]] :
        h \in [1..PopLanes -> {Add64(RansL, U64(c)) : c \in 0..3}] }

NpInit ==
    /\ input = <<>>
    /\ \E sf \in PopStatfuns : codec = [k |-> "NonUniform", sf |-> sf, prec |-> 2]
    /\ message \in PopMessages
    /\ pushed = <<>>
    /\ result = [op |-> "init"]

\* message, symbol = pop(message)
NpPop ==
    /\ result.op = "init"
    /\ result' = [op |-> "pop", r |-> Pop(codec, message)]
    /\ message' = IF result'.r.ok THEN result'.r.m ELSE message
    /\ pushed' = <<[before |-> message]>>
    /\ UNCHANGED <<input, codec>>

NpNext == NpPop

SpecNonUniformPop == NpInit /\ [][NpNext]_vars

\* the cumulative value the rANS pop reads from a lane
PopCf(lane) == lane[1] % 2^codec.prec

\* lane i of the popped message breaks start <= cf < start + freq for
\* (start, freq) = enc_statfun(dec_statfun(cf))
PopBreaks(i) ==
    LET cf == PopCf(pushed[1].before.head[i])
        e == codec.sf.enc[codec.sf.dec[cf]]
    IN  ~(e[1] <= cf /\ cf < e[1] + e[2])

\* C8: NonUniform pop fails when the cumulative value of any lane is outside
\* the interval the statfuns give for it, no message and no symbol is
\* returned and finish was not called; when every lane passes, finish is
\* called with exactly (start, freq) = enc_statfun(dec_statfun(cf)).
PopAssertsInterval ==
    result.op = "pop" =>
        IF \E i \in 1..PopLanes : PopBreaks(i)
        THEN /\ ~result.r.ok
             /\ DOMAIN result.r = {"ok", "err"}
             /\ message = pushed[1].before
        ELSE /\ result.r.ok
             /\ \A i \in 1..PopLanes :
                  LET cf == PopCf(pushed[1].before.head[i])
                      e == codec.sf.enc[codec.sf.dec[cf]]
                  IN  result.r.finish[i] = <<U64(e[1]), e[2]>>

\* a pop failed although one lane was inside its interval
PopOneLaneBreaks ==
    /\ result.op = "pop"
    /\ ~result.r.ok
    /\ ~PopBreaks(1)
    /\ PopBreaks(2)
    /\ PopCf(pushed[1].before.head[2]) >=
         codec.sf.enc[codec.sf.dec[PopCf(pushed[1].before.head[2])]][1]

(***************************************************************************)
(* repeat and parallel pushes given any number of symbols                  *)
(***************************************************************************)
MaxCount == 3

\* one symbol group: a symbol for a one-lane Uniform(2)
SymbolGroups == {<<U64(1)>>, <<U64(2)>>}

\* repeat(Uniform(2), n) over one lane, and parallel over any number of
\* codecs and of view functions, view j the lane j
LengthCodecs ==
    { [k |-> "repeat", codec |-> Uniform(2), n |-> n] : n \in 1..MaxCount }
    \cup { [k |-> "parallel",
            codecs |-> [j \in 1..nc |-> Uniform(2)],
            views |-> [j \in 1..nv |-> <<j>>]] : nc \in 1..MaxCount, nv \in 1..MaxCount }

LnInit ==
    /\ input \in UNION {[1..n -> SymbolGroups] : n \in 0..(MaxCount + 1)}
    /\ codec \in LengthCodecs
    /\ message \in IF codec.k = "repeat" THEN StartMessages(1) ELSE StartMessages(MaxCount)
    /\ pushed = <<>>
    /\ result = [op |-> "init"]

\* message = push(message, symbols) of repeat(codec, n)
LnRepeatPush ==
    /\ result.op = "init"
    /\ codec.k = "repeat"
    /\ result' = [op |-> "push", r |-> Push(codec, message, input)]
    /\ message' = IF result'.r.ok THEN result'.r.m ELSE message
    /\ pushed' = <<[before |-> message]>>
    /\ UNCHANGED <<input, codec>>

\* message = push(message, symbols) of parallel(codecs, view_funs)
LnParallelPush ==
    /\ result.op = "init"
    /\ codec.k = "parallel"
    /\ result' = [op |-> "push", r |-> Push(codec, message, input)]
    /\ message' = IF result'.r.ok THEN result'.r.m ELSE message
    /\ pushed' = <<[before |-> message]>>
    /\ UNCHANGED <<input, codec>>

LnNext == LnRepeatPush \/ LnParallelPush

SpecLengths == LnInit /\ [][LnNext]_vars

\* C9: the push of repeat(codec, n) fails when it is not given exactly n
\* symbols, and the push of parallel(codecs, view_funs) fails when the number
\* of symbol groups is not the number of codecs supplied; the failure leaves
\* the message as it was.
PushLengthChecked ==
    result.op = "push" =>
        /\ (codec.k = "repeat" /\ Len(input) # codec.n) =>
              (~result.r.ok /\ message = pushed[1].before)
        /\ (codec.k = "parallel" /\ Len(input) # Len(codec.codecs)) =>
              (~result.r.ok /\ message = pushed[1].before)

\* repeat alone: its push fails on every length but n, the message untouched
RepeatLengthChecked ==
    (result.op = "push" /\ codec.k = "repeat" /\ Len(input) # codec.n) =>
        (~result.r.ok /\ message = pushed[1].before)

(***************************************************************************)
(* substack and parallel over part of the head                             *)
(***************************************************************************)
FrameLanes == 3

\* the views: the slices of the head
FrameViews == {<<1>>, <<2>>, <<3>>, <<1, 2>>, <<2, 3>>, <<1, 3>>}

\* an inner codec for a view of n lanes
FrameInner(n) ==
    { Uniform(2),
      Categorical([i \in 1..n |-> IF i = 1 THEN <<1, 5, 2>> ELSE <<4, 1, 3>>], 8, 3) }

\* substack(codec, view_fun), and parallel over two disjoint views
FrameCodecs ==
    { [k |-> "substack", codec |-> c, view |-> v] :
        v \in FrameViews, c \in FrameInner(1) \cup FrameInner(2) }
    \cup { [k |-> "parallel", codecs |-> <<c1, c2>>, views |-> <<v1, v2>>] :
             v1 \in {<<1>>, <<3>>}, v2 \in {<<2>>}, c1 \in FrameInner(1),
             c2 \in FrameInner(1) }

\* the data a frame codec takes
FrameData(c) ==
    IF c.k = "substack" THEN DataOf(c.codec, Len(c.view))
    ELSE { <<d1, d2>> : d1 \in DataOf(c.codecs[1], 1), d2 \in DataOf(c.codecs[2], 1) }

\* a Categorical inner codec has one row a lane of its view
FrameFits(c) ==
    c.k = "substack" => (c.codec.sf.t = "buckets" => Len(c.codec.sf.b) = Len(c.view))

FrInit ==
    /\ input = <<>>
    /\ codec \in {c \in FrameCodecs : FrameFits(c)}
    /\ message \in {FullMessage(FrameLanes), MidMessage(FrameLanes)}
    /\ pushed = <<>>
    /\ result = [op |-> "init"]

\* message = push(message, data)
FrPush ==
    /\ result.op = "init"
    /\ \E data \in FrameData(codec) :
         /\ result' = [op |-> "push", r |-> Push(codec, message, data)]
         /\ pushed' = <<[before |-> message, data |-> data]>>
    /\ message' = IF result'.r.ok THEN result'.r.m ELSE message
    /\ UNCHANGED <<input, codec>>

\* message, data = pop(message)
FrPop ==
    /\ Len(pushed) < 2
    /\ result' = [op |-> "pop", r |-> Pop(codec, message)]
    /\ message' = IF result'.r.ok THEN result'.r.m ELSE message
    /\ pushed' = <<[before |-> message, data |-> <<>>]>> \o pushed
    /\ UNCHANGED <<input, codec>>

FrNext == FrPush \/ FrPop

SpecFrame == FrInit /\ [][FrNext]_vars

\* the lanes a codec's views select
FrameSelected(c) ==
    IF c.k = "substack" THEN {c.view[j] : j \in 1..Len(c.view)}
    ELSE UNION {{c.views[n][j] : j \in 1..Len(c.views[n])} : n \in 1..Len(c.views)}

\* the sub-message a view selects
SubMessage(m, view) == [head |-> [j \in 1..Len(view) |-> m.head[view[j]]], tail |-> m.tail]

\* what the inner codec of a substack returns for the sub-message
InnerResult(c, before, op, data) ==
    IF op = "push" THEN Push(c.codec, SubMessage(before, c.view), data)
    ELSE Pop(c.codec, SubMessage(before, c.view))

\* C10: a substack push or pop leaves every head lane outside its view as it
\* was, and the lanes in the view and the tail hold what the inner codec
\* returned for the sub-message; parallel over disjoint views leaves the lanes
\* outside every view as they were and each region as its own codec left it.
SubstackFrame ==
    (result.op \in {"push", "pop"} /\ result.r.ok) =>
        /\ Len(message.head) = Len(pushed[1].before.head)
        /\ \A i \in 1..Len(message.head) :
             i \notin FrameSelected(codec) => message.head[i] = pushed[1].before.head[i]
        /\ codec.k = "substack" =>
             LET inner == InnerResult(codec, pushed[1].before, result.op, pushed[1].data)
             IN  /\ SubMessage(message, codec.view) = inner.m
                 /\ result.op = "pop" => result.r.s = inner.s
        /\ (codec.k = "parallel" /\ result.op = "push") =>
             LET second == Push(codec.codecs[2],
                                SubMessage(pushed[1].before, codec.views[2]),
                                pushed[1].data[2])
                 first == Push(codec.codecs[1],
                               [head |-> SubMessage(pushed[1].before, codec.views[1]).head,
                                tail |-> second.m.tail],
                               pushed[1].data[1])
             IN  /\ SubMessage(message, codec.views[2]).head = second.m.head
                 /\ SubMessage(message, codec.views[1]) = first.m
        /\ (codec.k = "parallel" /\ result.op = "pop") =>
             LET first == Pop(codec.codecs[1], SubMessage(pushed[1].before, codec.views[1]))
                 second == Pop(codec.codecs[2],
                               [head |-> SubMessage(pushed[1].before, codec.views[2]).head,
                                tail |-> first.m.tail])
             IN  /\ SubMessage(message, codec.views[1]).head = first.m.head
                 /\ SubMessage(message, codec.views[2]) = second.m
                 /\ result.r.s = <<first.s, second.s>>

\* a substack over the lanes 1 and 3 pushed, its lanes and the tail changed
\* and lane 2 between them did not
SubstackFrameSeen ==
    /\ result.op = "push"
    /\ result.r.ok
    /\ codec.k = "substack"
    /\ codec.view = <<1, 3>>
    /\ message.head[1] # pushed[1].before.head[1]
    /\ message.head[3] # pushed[1].before.head[3]
    /\ message.tail # pushed[1].before.tail
    /\ message.head[2] = pushed[1].before.head[2]

(***************************************************************************)
(* AutoRegressive pushes and pops                                          *)
(***************************************************************************)
MaxElems == 3

\* the values of an element
ElemValues == 0..3

\* 8 symbols, every interval 2 wide, at precision 4
ShiftCodec == [size |-> 8, freq |-> 2, prec |-> 4]

\* orders over n elements: ascending, descending, and rotated by one
ElemOrders(n) ==
    { [i \in 1..n |-> i], [i \in 1..n |-> n + 1 - i], [i \in 1..n |-> (i % n) + 1] }

\* the orders a decoder may take: those, and the first two swapped
DecodeOrders(n) ==
    ElemOrders(n) \cup {[i \in 1..n |-> IF i = 1 THEN 2 ELSE IF i = 2 THEN 1 ELSE i]}

ArInit ==
    /\ \E n \in 2..MaxElems :
         /\ input \in [1..n -> ElemValues]
         /\ \E idxs \in ElemOrders(n) :
              \E pf \in {[t |-> "prefix", ord |-> idxs], [t |-> "const"], [t |-> "total"]} :
                codec = [k |-> "AutoRegressive", param_fn |-> pf, elem_idxs |-> idxs,
                         elem_codec |-> ShiftCodec]
    /\ message \in StartMessages(1)
    /\ pushed = <<>>
    /\ result = [op |-> "init"]

\* message = push(message, data)
ArPush ==
    /\ result.op = "init"
    /\ result' = [op |-> "push", r |-> Push(codec, message, input)]
    /\ message' = IF result'.r.ok THEN result'.r.m ELSE message
    /\ pushed' = <<[before |-> message, data |-> input]>>
    /\ UNCHANGED <<input, codec>>

\* message, data = pop(message), the decoder built with elem_idxs = order
ArPop ==
    /\ result.op = "push"
    /\ \E order \in DecodeOrders(Len(input)) :
         result' = [op |-> "pop", order |-> order,
                    r |-> Pop([codec EXCEPT !.elem_idxs = order], message)]
    /\ message' = IF result'.r.ok THEN result'.r.m ELSE message
    /\ UNCHANGED <<input, codec, pushed>>

ArNext == ArPush \/ ArPop

SpecAutoRegressive == ArInit /\ [][ArNext]_vars

\* the parameters of every element depend on earlier elements only
ParamsLookBack == codec.param_fn.t \in {"prefix", "const"}

\* C7: push pushes the elements in the reverse of elem_idxs; pop decodes them
\* in elem_idxs order, and the data buffer param_fn is given for an element
\* holds the decoded values of the elements before it and zeros elsewhere;
\* so when the parameters depend on earlier elements only, a pop after the
\* push returns the message and the data, while for data = [1, 2, 3] under
\* prefix sums a decoder taking the elements in another order does not.
AutoRegressiveOrder ==
    /\ result.op = "push" =>
         /\ result.r.ok
         /\ \A i \in 1..Len(input) :
              result.r.order[i] = codec.elem_idxs[Len(input) + 1 - i]
    /\ (result.op = "pop" /\ result.r.ok) =>
         /\ Len(result.r.trace) = Len(input)
         /\ \A i \in 1..Len(input) :
              /\ result.r.trace[i].idx = result.order[i]
              /\ \A j \in 1..Len(input) :
                   result.r.trace[i].data[j] =
                     IF \E l \in 1..(i - 1) : result.order[l] = j
                     THEN result.r.s[j] ELSE 0
    /\ (result.op = "pop" /\ result.order = codec.elem_idxs /\ ParamsLookBack) =>
         /\ result.r.ok
         /\ result.r.s = input
         /\ message = pushed[1].before
    /\ (/\ result.op = "pop"
        /\ result.order # codec.elem_idxs
        /\ codec.param_fn.t = "prefix"
        /\ codec.elem_idxs = <<1, 2, 3>>
        /\ input = <<1, 2, 3>>) =>
         ~(result.r.ok /\ result.r.s = input)

\* data = [1, 2, 3] under prefix sums was pushed and popped back in the
\* order 1, 2, 3, the third element decoded with the first two in the buffer
AutoRegressiveSeen ==
    /\ result.op = "pop"
    /\ result.r.ok
    /\ input = <<1, 2, 3>>
    /\ codec.param_fn.t = "prefix"
    /\ codec.elem_idxs = <<1, 2, 3>>
    /\ result.order = <<1, 2, 3>>
    /\ result.r.s = <<1, 2, 3>>
    /\ result.r.trace[3].data = <<1, 2, 0>>
    /\ message = pushed[1].before

(***************************************************************************)
(* Bernoulli(p, prec): the statistic functions of a two-symbol codec.  The *)
(* probability p of symbol 1 is the fraction num / den.                    *)
(***************************************************************************)
\* _nearest_int(arr) of n / d >= 0: np.uint64(np.ceil(arr - 0.5))
NearestInt(n, d) ==
    IF 2 * n <= d THEN 0 ELSE (2 * n + d - 1) \div (2 * d)

\* _ensure_nonzero_freq_bernoulli(p, precision): p[p == 0] += 1, and then
\* p[p == (1 << precision)] -= 1
EnsureNonzeroFreqBernoulli(p, precision) ==
    LET q == IF p = 0 THEN p + 1 ELSE p
    IN  IF q = 2^precision THEN q - 1 ELSE q

\* onemp, before the correction: _nearest_int((1 - p) * (1 << precision))
BernoulliOnemp(num, den, precision) == NearestInt((den - num) * 2^precision, den)

\* _bernoulli_cdf(p, precision)(s), safe
BernoulliCdf(num, den, precision, s) ==
    IF s = 1
    THEN EnsureNonzeroFreqBernoulli(BernoulliOnemp(num, den, precision), precision)
    ELSE IF s = 2 THEN 2^precision
    ELSE 0

\* a comparison of cf itself with the threshold
BernoulliPpfAbove(num, den, precision, cf) ==
    IF cf > EnsureNonzeroFreqBernoulli(BernoulliOnemp(num, den, precision), precision)
    THEN 1 ELSE 0

\* _bernoulli_ppf(p, precision)(cf), safe: np.uint64((cf + 0.5) > onemp)
BernoulliPpf(num, den, precision, cf) ==
    IF 2 * cf + 1 >
         2 * EnsureNonzeroFreqBernoulli(BernoulliOnemp(num, den, precision), precision)
    THEN 1 ELSE 0

\* _cdf_to_enc_statfun(_bernoulli_cdf(p, prec))(s): <<start, freq>>
BernoulliEncStatfun(num, den, precision, s) ==
    LET lower == BernoulliCdf(num, den, precision, s)
    IN  <<lower, BernoulliCdf(num, den, precision, s + 1) - lower>>

\* Bernoulli(p, prec)
Bernoulli(num, den, prec) ==
    [k |-> "NonUniform",
     sf |-> [t |-> "raw",
             enc |-> [s \in 0..1 |-> BernoulliEncStatfun(num, den, prec, s)],
             dec |-> [cf \in 0..(2^prec - 1) |-> BernoulliPpf(num, den, prec, cf)]],
     prec |-> prec]

MaxBernoulliPrec == 3

\* the probabilities: every multiple of 1 / BernoulliDen in [0, 1], so that
\* (1 - p) * 2^prec takes every value and every half in [0, 2^prec]
BernoulliDen == 2^(MaxBernoulliPrec + 1)

BnInit ==
    /\ input \in [prec : 0..MaxBernoulliPrec, num : 0..BernoulliDen]
    /\ codec = [k |-> "none"]
    /\ message = <<>>
    /\ pushed = <<>>
    /\ result = [op |-> "init"]

\* codec = Bernoulli(p, prec)
BnBuild ==
    /\ result.op = "init"
    /\ codec' = Bernoulli(input.num, BernoulliDen, input.prec)
    /\ result' = [op |-> "build",
                  onemp |-> BernoulliOnemp(input.num, BernoulliDen, input.prec),
                  t |-> BernoulliCdf(input.num, BernoulliDen, input.prec, 1)]
    /\ UNCHANGED <<input, message, pushed>>

\* start, freq = enc_statfun(symbol)
BnEncode ==
    /\ result.op = "build"
    /\ \E sym \in 0..1 :
         result' = [op |-> "enc", s |-> sym, t |-> result.t,
                    e |-> EncStatfun(codec.sf, <<sym>>).e[1]]
    /\ UNCHANGED <<input, codec, message, pushed>>

\* symbol = dec_statfun(cf); start, freq = enc_statfun(symbol)
BnDecode ==
    /\ result.op = "build"
    /\ \E cf \in 0..(2^codec.prec - 1) :
         LET sym == DecStatfun(codec.sf, <<U64(cf)>>).s[1]
         IN  result' = [op |-> "dec", cf |-> cf, s |-> sym, t |-> result.t,
                        e |-> EncStatfun(codec.sf, <<sym>>).e[1]]
    /\ UNCHANGED <<input, codec, message, pushed>>

BnNext == BnBuild \/ BnEncode \/ BnDecode

SpecBernoulli == BnInit /\ [][BnNext]_vars

\* what the statements about the threshold, the intervals and the decoded
\* symbol say of the present state
BernoulliHolds ==
    /\ result.op = "build" =>
         /\ result.t \in 1..(2^input.prec - 1)
         /\ result.t = Max(1, Min(2^input.prec - 1, result.onemp))
    /\ result.op \in {"enc", "dec"} =>
         /\ result.e[2] > 0
         /\ result.e = IF result.s = 0
                       THEN <<U64(0), result.t>>
                       ELSE <<U64(result.t), 2^input.prec - result.t>>
    /\ result.op = "dec" =>
         /\ result.s = (IF result.cf >= result.t THEN 1 ELSE 0)
         /\ ToInt(result.e[1]) <= result.cf
         /\ result.cf < ToInt(result.e[1]) + result.e[2]

\* C11, as stated: at every precision and for every rounded value of
\* (1 - prob) * 2^prec, the threshold is clamped into [1, 2^prec - 1], symbol 0
\* gets (0, t) and symbol 1 gets (t, 2^prec - t), both of width > 0, and the
\* decode statfun returns 1 exactly when cf >= t.
BernoulliEveryPrecision == BernoulliHolds

\* from precision 1 on the threshold, the intervals and the decoded symbol are
\* as stated; at precision 0 the threshold is 0 and symbol 0 has width 0
BernoulliPartition == input.prec >= 1 => BernoulliHolds

\* p = 1 at a precision of at least 1: (1 - p) * 2^prec rounds to 0, the
\* threshold is raised to 1 and cf = 0 decodes to symbol 0 of interval (0, 1)
BernoulliClampedSeen ==
    /\ result.op = "dec"
    /\ input.prec >= 1
    /\ input.num = BernoulliDen
    /\ result.t = 1
    /\ result.cf = 0
    /\ result.s = 0
    /\ result.e = <<U64(0), 1>>

(***************************************************************************)
(* _fold_sizes as the loop it is, one iteration a step, and the resize of  *)
(* a head along the sizes it returns                                       *)
(***************************************************************************)
MaxHead == 6

\* the iterations followed; a loop that has not ended by then is left there
MaxFoldSteps == 5

\* a body that doubles without the cap at big
FoldStepUncapped(small, big) == 2 * small

\* the loop body of _fold_sizes: small = 2 * small if 2 * small <= big else big
FoldStep(small, big) == IF 2 * small <= big THEN 2 * small ELSE big

FsInit ==
    /\ input \in {[small |-> a, big |-> b] : a \in 0..MaxHead, b \in 0..MaxHead}
    /\ input.small <= input.big
    /\ codec = [k |-> "none"]
    /\ message = MidMessage(input.big)
    /\ pushed = <<>>
    /\ result = [op |-> "init"]

\* sizes = [small]
FsCall ==
    /\ result.op = "init"
    /\ result' = [op |-> "loop", small |-> input.small, sizes |-> <<input.small>>]
    /\ UNCHANGED <<input, codec, message, pushed>>

\* one iteration of while small != big
FsStep ==
    /\ result.op = "loop"
    /\ result.small # input.big
    /\ Len(result.sizes) < MaxFoldSteps
    /\ result' = [op |-> "loop",
                  small |-> FoldStep(result.small, input.big),
                  sizes |-> Append(result.sizes, FoldStep(result.small, input.big))]
    /\ UNCHANGED <<input, codec, message, pushed>>

\* return sizes
FsReturn ==
    /\ result.op = "loop"
    /\ result.small = input.big
    /\ result' = [op |-> "done", small |-> result.small, sizes |-> result.sizes]
    /\ UNCHANGED <<input, codec, message, pushed>>

\* _resize_head_1d(message, small) of a head of big lanes; with small = 0 < big
\* its call of _fold_sizes does not return
FsShrink ==
    /\ result.op = "done"
    /\ input.small >= 1 \/ input.big = 0
    /\ result' = [op |-> "shrunk", small |-> result.small, sizes |-> result.sizes,
                  r |-> ResizeHead1d(message, input.small)]
    /\ message' = IF result'.r.ok THEN result'.r.m ELSE message
    /\ pushed' = <<[before |-> message]>>
    /\ UNCHANGED <<input, codec>>

\* _resize_head_1d(message, big) of the head of small lanes
FsGrow ==
    /\ result.op = "shrunk"
    /\ result' = [op |-> "grown", small |-> result.small, sizes |-> result.sizes,
                  r |-> ResizeHead1d(message, input.big)]
    /\ message' = IF result'.r.ok THEN result'.r.m ELSE message
    /\ UNCHANGED <<input, codec, pushed>>

FsNext == FsCall \/ FsStep \/ FsReturn \/ FsShrink \/ FsGrow

\* a call of _fold_sizes that can take a step takes it: the loop runs on until
\* it returns
SpecFold == FsInit /\ [][FsNext]_vars /\ WF_vars(FsCall \/ FsStep \/ FsReturn)

\* the sizes returned start at small, end at big, grow strictly and at most
\* double, exactly double before the last step; the fold codecs built from
\* them take sizes[i + 1] - sizes[i] lanes each, no more than the smaller
\* head has; and the resizes end with the size asked for
FoldShape ==
    /\ result.op \in {"done", "shrunk", "grown"} =>
         /\ result.sizes = FoldSizes(input.small, input.big)
         /\ result.sizes[1] = input.small
         /\ result.sizes[Len(result.sizes)] = input.big
         /\ \A i \in 1..(Len(result.sizes) - 1) :
              /\ result.sizes[i] < result.sizes[i + 1]
              /\ result.sizes[i + 1] <= 2 * result.sizes[i]
              /\ i + 1 < Len(result.sizes) => result.sizes[i + 1] = 2 * result.sizes[i]
              /\ Len(FoldCodecs(result.sizes)[i].view)
                   = result.sizes[i + 1] - result.sizes[i]
              /\ result.sizes[i + 1] - result.sizes[i] <= result.sizes[i]
    /\ result.op = "shrunk" => (result.r.ok /\ Len(message.head) = input.small)
    /\ result.op = "grown" => (result.r.ok /\ Len(message.head) = input.big)

\* an iteration brings small strictly closer to big
FoldProgress ==
    (result.op = "loop" /\ result'.op = "loop") =>
        (result.small < result'.small /\ result'.small <= input.big)

FoldReturned == result.op \in {"done", "shrunk", "grown"}

\* C12, as stated: for all 0 <= small <= big the loop of _fold_sizes
\* terminates, with sizes that start at small, end at big and grow strictly
\* and at most double, and the resize ends with the size asked for.
FoldSizesAlwaysTerminates ==
    /\ [](input.big >= input.small => FoldShape)
    /\ [][FoldProgress]_vars
    /\ <>FoldReturned

\* C12, amended: the same for all 1 <= small <= big and for small = big = 0;
\* with small = 0 < big an iteration leaves small at 0 and the loop goes on.
FoldSizesTerminates ==
    /\ []((input.small >= 1 \/ input.big = 0) => FoldShape)
    /\ [][(input.small >= 1 \/ input.big = 0) => FoldProgress]_vars
    /\ (input.small >= 1 \/ input.big = 0) => <>FoldReturned

\* a head of 6 lanes was shrunk to 1 lane along the sizes 1, 2, 4, 6 and grown
\* back to 6 lanes
FoldCappedSeen ==
    /\ result.op = "grown"
    /\ input = [small |-> 1, big |-> 6]
    /\ result.sizes = <<1, 2, 4, 6>>
    /\ result.r.ok
    /\ Len(message.head) = 6
    /\ message = pushed[1].before

====
